---------------------------- MODULE Spec2Model ----------------------------
(***************************************************************************)
(* A model of src/main.py: the Airbyte -> Prometheus exporter.             *)
(*                                                                         *)
(* The program is one sequential loop (main): refresh the OAuth token if   *)
(* needed, GET four collections, run four aggregators that write a         *)
(* process-wide gauge registry, sleep, repeat.  The state is the module's  *)
(* globals (current_token, token_expiry, connection_names, the gauges),    *)
(* the locals of fetch_airbyte_metrics, the wall clock, the zone of the    *)
(* process and the position of the loop.                                   *)
(*                                                                         *)
(* Data conventions                                                        *)
(*  - a value decoded from JSON carries its Python type: None, Str(s),     *)
(*    IntOf(n), Dict(r), List(q).  r is a record holding the keys that    *)
(*    are present, q a sequence of values.  JSON's booleans and fractions  *)
(*    are not modelled, nor is str() of a dict or a list;                  *)
(*  - a Python string is a TLA+ string;                                    *)
(*  - connection_names is a function from keys (None, Str, IntOf) to      *)
(*    names; the dicts update_job_metrics iterates are sequences of        *)
(*    <<key, value>> in insertion order;                                   *)
(*  - a gauge without labels holds the value last set; a labelled gauge    *)
(*    maps the tuple of its label values, each passed through str(), to    *)
(*    the value last set;                                                  *)
(*  - time is in whole seconds and never runs backwards.                   *)
(***************************************************************************)
EXTENDS Integers, Sequences, FiniteSets, TLC

VARIABLES
    pc,               \* position of main's loop inside/around fetch_airbyte_metrics
    now,              \* time.time()
    timezone,         \* the zone of the process (the TZ it was started in)
    current_token,    \* global current_token: None, or the access_token last received
    token_expiry,     \* global token_expiry
    connection_names, \* global connection_names: connectionId -> name
    registry,         \* the prometheus gauges: scalar values and labelled series
    jobs,             \* locals of fetch_airbyte_metrics
    connections,
    destinations,
    sources,
    cycle,            \* number of poll steps started (bounded by the environment)
    issued,           \* number of answers that carried an access_token
    exch,             \* this step's token exchange: "none", "ok" or "failed"
    attempted,        \* endpoints whose GET was sent in this step
    failed,           \* endpoints whose GET failed in this step
    ran,              \* aggregators that completed in this step, in order
    touched,          \* labelled job series set in this step
    authFailedLast,   \* the previous step was aborted by a failed exchange
    prevConnIds       \* connectionIds of the previous step's connections

vars == <<pc, now, timezone, current_token, token_expiry, connection_names, registry,
          jobs, connections, destinations, sources, cycle, issued, exch,
          attempted, failed, ran, touched, authFailedLast, prevConnIds>>

-----------------------------------------------------------------------------
(* Bounds of the model *)

\* poll steps explored
MaxCycles == 2
\* steps of the loop followed where only the clock and the token are looked at
MaxClockCycles == 3
\* longest jobs list given to the aggregators on their own
MaxJobs == 2

(* Program constants *)

\* refresh_token_if_needed: "token_expiry - 60"
REFRESH_MARGIN == 60
\* config.METRICS_UPDATE_INTERVAL, in seconds
METRICS_UPDATE_INTERVAL == 30

-----------------------------------------------------------------------------
(* Python values *)

None == [t |-> "NoneType"]
Str(s) == [t |-> "str", v |-> s]
IntOf(n) == [t |-> "int", v |-> n]
Dict(r) == [t |-> "dict", v |-> r]
List(q) == [t |-> "list", v |-> q]

\* d.get(k, default) on a dict
Get(d, k, default) == IF k \in DOMAIN d.v THEN d.v[k] ELSE default

\* bool(x)
Truthy(x) ==
    CASE x.t = "NoneType" -> FALSE
      [] x.t = "str" -> x.v # ""
      [] x.t = "int" -> x.v # 0
      [] x.t = "dict" -> DOMAIN x.v # {}
      [] x.t = "list" -> x.v # <<>>

\* x can be a dict key
Hashable(x) == x.t \in {"NoneType", "str", "int"}

\* len(x) is defined
HasLen(x) == x.t \in {"str", "dict", "list"}

\* len(x)
PyLen(x) == IF x.t = "dict" THEN Cardinality(DOMAIN x.v) ELSE Len(x.v)

\* a value the model does not give: evaluating it fails
NotModelled == CHOOSE v \in {} : TRUE

Raised == [ok |-> FALSE]
Value(v) == [ok |-> TRUE, val |-> v]

RECURSIVE IntToStr(_)
IntToStr(n) ==
    IF n < 0 THEN "-" \o IntToStr(-n)
    ELSE IF n < 10 THEN SubSeq("0123456789", n + 1, n + 1)
    ELSE IntToStr(n \div 10) \o SubSeq("0123456789", (n % 10) + 1, (n % 10) + 1)

\* str(x), as prometheus_client applies it to a label value
PyStr(x) ==
    CASE x.t = "str" -> x.v
      [] x.t = "NoneType" -> "None"
      [] x.t = "int" -> IntToStr(x.v)
      [] OTHER -> NotModelled

RECURSIVE SetToSeq(_)
SetToSeq(S) == IF S = {} THEN <<>>
               ELSE LET x == CHOOSE x \in S : TRUE IN <<x>> \o SetToSeq(S \ {x})

(* iter(x): the items a for loop goes through, or TypeError.  A dict gives *)
(* its keys and a string its characters; the order of the keys is not      *)
(* kept by the record, and no loop of the program gets past the first of   *)
(* them.                                                                   *)
Iterate(x) ==
    CASE x.t = "list" -> Value(x.v)
      [] x.t = "dict" -> Value([i \in 1..Cardinality(DOMAIN x.v) |->
                                  Str(SetToSeq(DOMAIN x.v)[i])])
      [] x.t = "str" -> Value([i \in 1..Len(x.v) |-> Str(SubSeq(x.v, i, i))])
      [] OTHER -> Raised

(* A dict that keeps insertion order: a sequence of <<key, value>> *)
DictHas(d, k) == \E i \in DOMAIN d : d[i][1] = k
DictGet(d, k, default) ==
    IF DictHas(d, k) THEN d[CHOOSE i \in DOMAIN d : d[i][1] = k][2] ELSE default
DictPut(d, k, v) ==
    IF DictHas(d, k) THEN [i \in DOMAIN d |-> IF d[i][1] = k THEN <<k, v>> ELSE d[i]]
    ELSE Append(d, <<k, v>>)
DictKeys(d) == {d[i][1] : i \in DOMAIN d}

Abs(n) == IF n < 0 THEN -n ELSE n

RECURSIVE Gcd(_, _)
Gcd(a, b) == IF b = 0 THEN a ELSE Gcd(b, a % b)

RECURSIVE SeqSum(_)
SeqSum(s) == IF s = <<>> THEN 0 ELSE Head(s) + SeqSum(Tail(s))

\* the float a / b for b > 0, kept exact as a reduced fraction
Fraction(a, b) == LET g == Gcd(Abs(a), b) IN
                  IF a = 0 THEN [num |-> 0, den |-> 1]
                  ELSE [num |-> a \div g, den |-> b \div g]

-----------------------------------------------------------------------------
(* parse_timestamp *)

(* Python strings are TLA+ strings; Ch(s, i) is s[i:i+1] with Python's     *)
(* 0-based index, "" past the end.                                         *)
Ch(s, i) == IF i >= 0 /\ i < Len(s) THEN SubSeq(s, i + 1, i + 1) ELSE ""

DigitVal(c) ==
    CASE c = "0" -> 0 [] c = "1" -> 1 [] c = "2" -> 2 [] c = "3" -> 3
      [] c = "4" -> 4 [] c = "5" -> 5 [] c = "6" -> 6 [] c = "7" -> 7
      [] c = "8" -> 8 [] c = "9" -> 9 [] OTHER -> -1

IsDigit(c) == DigitVal(c) >= 0

\* str.replace('Z', '+00:00')
RECURSIVE ReplaceZ(_)
ReplaceZ(s) ==
    IF s = "" THEN ""
    ELSE (IF Head(s) = "Z" THEN "+00:00" ELSE Head(s)) \o ReplaceZ(Tail(s))

\* the decimal number written in the n characters of s from index i, or -1
\* when one of them is no digit
RECURSIVE Number(_, _, _)
Number(s, i, n) ==
    IF n = 0 THEN 0
    ELSE LET hi == Number(s, i, n - 1)
             c  == Ch(s, i + n - 1)
         IN  IF hi < 0 \/ ~IsDigit(c) THEN -1 ELSE 10 * hi + DigitVal(c)

\* the index of the first character from i on that is no digit
RECURSIVE SkipDigits(_, _)
SkipDigits(s, i) == IF IsDigit(Ch(s, i)) THEN SkipDigits(s, i + 1) ELSE i

IsLeap(y) == (y % 4 = 0 /\ y % 100 # 0) \/ y % 400 = 0

DaysInMonth(y, m) ==
    IF m = 2 THEN (IF IsLeap(y) THEN 29 ELSE 28)
    ELSE IF m \in {4, 6, 9, 11} THEN 30 ELSE 31

\* days from 1970-01-01 to the proleptic Gregorian date y-m-d
DaysFromCivil(y, m, d) ==
    LET yy  == IF m <= 2 THEN y - 1 ELSE y
        era == yy \div 400
        yoe == yy - era * 400
        mp  == IF m > 2 THEN m - 3 ELSE m + 9
        doy == (153 * mp + 2) \div 5 + d - 1
        doe == yoe * 365 + yoe \div 4 - yoe \div 100 + doy
    IN  era * 146097 + doe - 719468

\* datetime.min and datetime.max as days from 1970-01-01
MinDays == DaysFromCivil(1, 1, 1)
MaxDays == DaysFromCivil(9999, 12, 31)

(* A whole number of seconds since 1970-01-01T00:00:00Z is kept as          *)
(* [days, secs] with 0 <= secs < 86400, standing for days * 86400 + secs:  *)
(* Python's int has no width, and the seconds of a year after 2038 do not  *)
(* fit the 32 bits of TLC's integers.                                      *)
Epoch(days, secs) == [days |-> days + secs \div 86400, secs |-> secs % 86400]

\* a >= b, for two such numbers
EpochGe(a, b) == a.days > b.days \/ (a.days = b.days /\ a.secs >= b.secs)

\* where YYYY-MM-DD, YYYYMMDD, YYYY-Www, YYYYWww, YYYY-Www-D or YYYYWwwD ends
find_isoformat_datetime_separator(s) ==
    LET n == Len(s) IN
    IF n = 7 THEN 7
    ELSE IF Ch(s, 4) = "-" THEN
        IF Ch(s, 5) = "W" THEN
            IF n > 8 /\ Ch(s, 8) = "-"
            THEN (IF n = 9 THEN -1
                  ELSE IF n > 10 /\ IsDigit(Ch(s, 10)) THEN 8 ELSE 10)
            ELSE 8
        ELSE 10
    ELSE IF Ch(s, 4) = "W" THEN
        LET idx == SkipDigits(s, 7) IN
        IF idx < 9 THEN idx ELSE IF idx % 2 = 0 THEN 7 ELSE 8
    ELSE 8

\* the date of ISO week w, day d of year y (date.fromisocalendar)
iso_to_ymd(y, w, d) ==
    LET jan1 == DaysFromCivil(y, 1, 1)
        \* Monday is 0; 1970-01-01 was a Thursday
        first_weekday == (jan1 + 3) % 7
        week53 == first_weekday = 3 \/ (first_weekday = 2 /\ IsLeap(y))
        monday1 == jan1 - first_weekday + (IF first_weekday > 3 THEN 7 ELSE 0)
        days == monday1 + (w - 1) * 7 + d - 1
    IN  IF y < 1 \/ w <= 0 \/ w > 53 \/ (w = 53 /\ ~week53) \/ d <= 0 \/ d >= 8
           \/ days < MinDays \/ days > MaxDays
        THEN Raised ELSE Value(days)

\* the date written in s before index sep, as days from 1970-01-01
parse_isoformat_date(s, sep) ==
    LET y == Number(s, 0, 4)
        uses_separator == Ch(s, 4) = "-"
        p == IF uses_separator THEN 5 ELSE 4
    IN  IF y < 0 THEN Raised
        ELSE IF Ch(s, p) = "W" THEN
            LET w  == Number(s, p + 1, 2)
                q  == p + 3
                hasDay == q < sep
                qd == IF uses_separator THEN q + 1 ELSE q
                d  == IF hasDay THEN Number(s, qd, 1) ELSE 1
            IN  IF w < 0 \/ (hasDay /\ uses_separator /\ Ch(s, q) # "-") \/ d < 0
                THEN Raised ELSE iso_to_ymd(y, w, d)
        ELSE
            LET m  == Number(s, p, 2)
                q  == p + 2
                qd == IF uses_separator THEN q + 1 ELSE q
                d  == Number(s, qd, 2)
            IN  IF m < 0 \/ (uses_separator /\ Ch(s, q) # "-") \/ d < 0
                   \/ y < 1 \/ m < 1 \/ m > 12 \/ d < 1 \/ d > DaysInMonth(y, m)
                THEN Raised ELSE Value(DaysFromCivil(y, m, d))

Pow10(k) == CASE k = 0 -> 1 [] k = 1 -> 10 [] k = 2 -> 100 [] k = 3 -> 1000
              [] k = 4 -> 10000 [] k = 5 -> 100000

\* the fraction of a second written from index p up to index end, in
\* microseconds; digits after the sixth are dropped; rest tells whether
\* characters are left after it
ParseFraction(s, p, end, vals) ==
    LET rem == end - p
        n   == IF rem >= 6 THEN 6 ELSE rem
        us  == Number(s, p, n)
        q   == SkipDigits(s, p + n)
    IN  IF us < 0 THEN Raised
        ELSE Value([h |-> vals[1], m |-> vals[2], s |-> vals[3],
                    us |-> us * Pow10(6 - n), rest |-> Ch(s, q) # ""])

\* HH[[:]MM[[:]SS[(.|,)ffffff]]] written from index p up to index end; i is
\* the component being read (0 hours, 1 minutes, 2 seconds)
RECURSIVE ParseComponents(_, _, _, _, _, _)
ParseComponents(s, p, end, i, has_separator, vals) ==
    LET v  == Number(s, p, 2)
        c  == Ch(s, p + 2)
        hs == IF i = 0 THEN c = ":" ELSE has_separator
        vs == [vals EXCEPT ![i + 1] = v]
    IN  IF v < 0 THEN Raised
        ELSE IF p + 3 >= end
        THEN Value([h |-> vs[1], m |-> vs[2], s |-> vs[3], us |-> 0, rest |-> c # ""])
        ELSE IF hs /\ c = ":"
        THEN (IF i = 2 THEN ParseFraction(s, p + 3, end, vs)
              ELSE ParseComponents(s, p + 3, end, i + 1, hs, vs))
        ELSE IF c \in {".", ","} THEN ParseFraction(s, p + 3, end, vs)
        ELSE IF ~hs
        THEN (IF i = 2 THEN ParseFraction(s, p + 2, end, vs)
              ELSE ParseComponents(s, p + 2, end, i + 1, hs, vs))
        ELSE Raised

parse_hh_mm_ss_ff(s, p, end) == ParseComponents(s, p, end, 0, TRUE, <<0, 0, 0>>)

\* the index of the first "+" or "-" from i on (the Z's are replaced by
\* now), an index past the end when there is none
RECURSIVE TzinfoPos(_, _)
TzinfoPos(s, i) ==
    IF Ch(s, i) \in {"Z", "+", "-"} THEN i
    ELSE IF i + 1 < Len(s) THEN TzinfoPos(s, i + 1) ELSE i + 1

\* the time written from index start on: its fields, whether it carries a
\* UTC offset, and the offset in seconds and microseconds
parse_isoformat_time(s, start) ==
    LET n  == Len(s)
        tz == TzinfoPos(s, start)
        t  == parse_hh_mm_ss_ff(s, start, tz)
        o  == parse_hh_mm_ss_ff(s, tz + 1, n)
        sign == IF Ch(s, tz) = "-" THEN -1 ELSE 1
        off  == sign * (o.val.h * 3600 + o.val.m * 60 + o.val.s)
    IN  IF ~t.ok THEN Raised
        ELSE IF tz >= n
        THEN (IF t.val.rest THEN Raised
              ELSE Value([h |-> t.val.h, m |-> t.val.m, s |-> t.val.s, us |-> t.val.us,
                          aware |-> FALSE, off |-> 0, offus |-> 0]))
        ELSE IF Ch(s, tz) = "Z"
        THEN (IF tz + 1 < n THEN Raised
              ELSE Value([h |-> t.val.h, m |-> t.val.m, s |-> t.val.s, us |-> t.val.us,
                          aware |-> TRUE, off |-> 0, offus |-> 0]))
        ELSE IF ~o.ok \/ o.val.rest THEN Raised
        \* timezone(): the offset is strictly between -24 and 24 hours
        ELSE IF off >= 86400 \/ off <= -86400 THEN Raised
        ELSE Value([h |-> t.val.h, m |-> t.val.m, s |-> t.val.s, us |-> t.val.us,
                    aware |-> TRUE, off |-> off,
                    \* an offset of 0 whole seconds is UTC, whatever its fraction
                    offus |-> IF off = 0 THEN 0 ELSE sign * o.val.us])

(* int(x) for the float x nearest to e + us / 10^6.  int() drops the       *)
(* fraction towards zero; a float of this size has 53 bits, so beyond      *)
(* 2^34 seconds a fraction within a few microseconds of a whole second is  *)
(* that whole second.                                                      *)
FloatSlack(e) ==
    IF EpochGe(e, Epoch(0, 0))
    THEN (IF EpochGe(e, Epoch(1590728, 54272)) THEN 15      \* 2^37
          ELSE IF EpochGe(e, Epoch(795364, 27136)) THEN 7   \* 2^36
          ELSE IF EpochGe(e, Epoch(397682, 13568)) THEN 3   \* 2^35
          ELSE IF EpochGe(e, Epoch(198841, 6784)) THEN 1    \* 2^34
          ELSE 0)
    ELSE (IF ~EpochGe(e, Epoch(-397683, 72832)) THEN 3      \* -2^35
          ELSE IF ~EpochGe(e, Epoch(-198842, 79616)) THEN 1 \* -2^34
          ELSE 0)

int_of_timestamp(e, us) ==
    LET up == Epoch(e.days, e.secs + 1) IN
    IF us = 0 THEN e
    ELSE IF EpochGe(e, Epoch(0, 0))
    THEN (IF 1000000 - us <= FloatSlack(e) THEN up ELSE e)
    ELSE (IF us <= FloatSlack(e) THEN e ELSE up)

-----------------------------------------------------------------------------
(* The local zone.  A datetime without a UTC offset is local time, and     *)
(* CPython asks the platform's localtime() for the zone's offset at an     *)
(* instant: the offset follows the zone's rules, it is not one number.     *)

\* the year of the day numbered days (days from 1970-01-01)
YearOfDays(days) ==
    LET z   == days + 719468
        era == z \div 146097
        doe == z - era * 146097
        yoe == (doe - doe \div 1460 + doe \div 36524 - doe \div 146096) \div 365
        doy == doe - (365 * yoe + yoe \div 4 - yoe \div 100)
    IN  yoe + era * 400 + (IF doy >= 306 THEN 1 ELSE 0)

\* the n-th Sunday of month m of year y, as a day number; 1970-01-01 was a
\* Thursday
NthSunday(y, m, n) ==
    LET first == DaysFromCivil(y, m, 1) IN first + ((10 - first) % 7) + 7 * (n - 1)

LastSunday(y, m) ==
    LET last == DaysFromCivil(y, m, DaysInMonth(y, m)) IN last - ((last + 4) % 7)

(* America/New_York in the zone database: local mean time until 1883,      *)
(* then UTC-5, with daylight time (UTC-4) between the two instants below   *)
(* in the years that have it.  Clocks go forward at 02:00 EST (07:00 UTC)  *)
(* and back at 02:00 EDT (06:00 UTC); from February 1942 to September      *)
(* 1945 daylight time was in force throughout.                             *)
NewYorkDstStart(y) ==
    IF y >= 2007 THEN Epoch(NthSunday(y, 3, 2), 25200)
    ELSE IF y >= 1987 THEN Epoch(NthSunday(y, 4, 1), 25200)
    ELSE IF y = 1975 THEN Epoch(DaysFromCivil(1975, 2, 23), 25200)
    ELSE IF y = 1974 THEN Epoch(DaysFromCivil(1974, 1, 6), 25200)
    ELSE IF y \in 1943..1945 THEN Epoch(DaysFromCivil(y, 1, 1), 0)
    ELSE IF y = 1942 THEN Epoch(DaysFromCivil(1942, 2, 9), 25200)
    ELSE IF y >= 1921 THEN Epoch(LastSunday(y, 4), 25200)
    ELSE Epoch(LastSunday(y, 3), 25200)

NewYorkDstEnd(y) ==
    IF y >= 2007 THEN Epoch(NthSunday(y, 11, 1), 21600)
    ELSE IF y >= 1955 THEN Epoch(LastSunday(y, 10), 21600)
    ELSE IF y \in 1942..1944 THEN Epoch(DaysFromCivil(y + 1, 1, 1), 0)
    ELSE IF y >= 1921 THEN Epoch(LastSunday(y, 9), 21600)
    ELSE Epoch(LastSunday(y, 10), 21600)

NewYorkOffset(u, y) ==
    IF ~EpochGe(u, Epoch(DaysFromCivil(1883, 11, 18), 61200)) THEN -17762
    ELSE IF y >= 1918 /\ EpochGe(u, NewYorkDstStart(y)) /\ ~EpochGe(u, NewYorkDstEnd(y))
    THEN -14400
    ELSE -18000

\* tm_gmtoff of localtime(u) in the zone tz: seconds east of UTC at the
\* instant u
utcoffset(tz, u) ==
    CASE tz = "UTC" -> 0
      [] tz = "EST" -> -18000
      [] tz = "America/New_York" -> NewYorkOffset(u, YearOfDays(u.days))

\* a - b in seconds, for two instants less than 2^31 seconds apart
EpochDiff(a, b) == (a.days - b.days) * 86400 + a.secs - b.secs

\* utc_to_seconds of the broken-down time lt: years 1 to 9999, or ValueError
utc_to_seconds(lt) ==
    IF lt.days < MinDays \/ lt.days > MaxDays THEN Raised ELSE Value(lt)

\* local(u) of _datetimemodule.c: the zone's wall clock at the instant u,
\* read as if it were UTC
local(tz, u) == utc_to_seconds(Epoch(u.days, u.secs + utcoffset(tz, u)))

max_fold_seconds == 86400

(* local_to_seconds of _datetimemodule.c with fold = 0: the instant u at   *)
(* which the zone's wall clock reads t.  a is the offset at the instant    *)
(* that reads t in UTC, u1 = t - a, and b the offset found at u1 or, when  *)
(* u1 is a solution, one day before it.  Of two solutions (the clock was   *)
(* set back) the earlier is returned, and for a wall time that was skipped *)
(* (the clock was set forward) the later of t - a and t - b.               *)
local_to_seconds_fold(tz, t, u1, u2, t1) ==
    LET t2 == local(tz, u2) IN
    IF ~t2.ok THEN Raised
    ELSE IF t2.val = t THEN Value(u2)
    ELSE IF t1 = t THEN Value(u1)
    ELSE Value(IF EpochGe(u1, u2) THEN u1 ELSE u2)

local_to_seconds_earlier(tz, t, a, u1, lt) ==
    IF ~lt.ok THEN Raised
    ELSE IF EpochDiff(lt.val, Epoch(u1.days, u1.secs - max_fold_seconds)) = a
    THEN Value(u1)
    ELSE local_to_seconds_fold(
             tz, t, u1,
             Epoch(t.days,
                   t.secs - EpochDiff(lt.val, Epoch(u1.days, u1.secs - max_fold_seconds))),
             t)

local_to_seconds_u1(tz, t, a, u1, t1) ==
    IF ~t1.ok THEN Raised
    ELSE IF t1.val = t
    THEN local_to_seconds_earlier(tz, t, a, u1,
                                  local(tz, Epoch(u1.days, u1.secs - max_fold_seconds)))
    ELSE local_to_seconds_fold(tz, t, u1, Epoch(t.days, t.secs - EpochDiff(t1.val, u1)),
                               t1.val)

local_to_seconds_a(tz, t, a) ==
    local_to_seconds_u1(tz, t, a, Epoch(t.days, t.secs - a),
                        local(tz, Epoch(t.days, t.secs - a)))

local_to_seconds(tz, t) ==
    IF ~local(tz, t).ok THEN Raised
    ELSE local_to_seconds_a(tz, t, EpochDiff(local(tz, t).val, t))

(* int(dt.timestamp()) of the datetime with the date of day number date    *)
(* and the time t, as CPython 3.11 computes it: an aware datetime is its   *)
(* distance from the epoch, a naive one goes through local_to_seconds in   *)
(* the zone tz of the process.                                             *)
datetime_timestamp(date, t, tz) ==
    LET secs == t.h * 3600 + t.m * 60 + t.s
        us   == t.us - t.offus
    IN  IF t.h > 23 \/ t.m > 59 \/ t.s > 59 THEN Raised
        ELSE IF t.aware
        THEN Value(int_of_timestamp(
                     Epoch(date, secs - t.off + us \div 1000000), us % 1000000))
        ELSE IF ~local_to_seconds(tz, Epoch(date, secs)).ok THEN Raised
        ELSE Value(int_of_timestamp(local_to_seconds(tz, Epoch(date, secs)).val, t.us))

\* the datetime of a date and a time that were parsed, or ValueError
datetime_combine(date, time, tz) ==
    IF ~date.ok \/ ~time.ok THEN Raised
    ELSE datetime_timestamp(date.val, time.val, tz)

\* the time of a string that ends with its date
Midnight == [h |-> 0, m |-> 0, s |-> 0, us |-> 0, aware |-> FALSE, off |-> 0, offus |-> 0]

\* datetime.fromisoformat(s) for a date that ends at index sep
datetime_fromisoformat(s, sep, tz) ==
    IF sep < 0 THEN Raised
    ELSE datetime_combine(parse_isoformat_date(s, sep),
                          IF Len(s) > sep THEN parse_isoformat_time(s, sep + 1)
                          ELSE Value(Midnight),
                          tz)

\* int(datetime.fromisoformat(s).timestamp())
fromisoformat_timestamp(s, tz) ==
    IF Len(s) < 7 THEN Raised
    ELSE datetime_fromisoformat(s, find_isoformat_datetime_separator(s), tz)

parse_timestamp(iso_str, tz) ==
    fromisoformat_timestamp(ReplaceZ(iso_str), tz)

-----------------------------------------------------------------------------
(* isodate.parse_duration(s).total_seconds().  A duration is                *)
(*   [+-]P[nY][nM][nW][nD][T[nH][nM][nS]]                                  *)
(* each n being digits, or digits with a "." or "," fraction.  Years and   *)
(* months are kept apart by isodate and are no part of total_seconds().    *)
(* The model gives no value for a duration with a fraction, nor for the    *)
(* alternative format PYYYY-MM-DDThh:mm:ss.                                *)

\* the rank of designator c in the date or the time part, 0 if it is none
UnitRank(c, inTime) ==
    IF inTime THEN (CASE c = "H" -> 5 [] c = "M" -> 6 [] c = "S" -> 7 [] OTHER -> 0)
    ELSE (CASE c = "Y" -> 1 [] c = "M" -> 2 [] c = "W" -> 3 [] c = "D" -> 4
            [] OTHER -> 0)

UnitSeconds(rank) ==
    CASE rank = 3 -> 604800 [] rank = 4 -> 86400 [] rank = 5 -> 3600
      [] rank = 6 -> 60 [] rank = 7 -> 1 [] OTHER -> 0

NoMatch == [match |-> FALSE]

(* The components from index i on.  stage is the rank of the last          *)
(* designator read, num the number being read and numState how far it is   *)
(* read: "none", "int", "sep" (after the "." or ","), "frac".              *)
RECURSIVE DurationScan(_, _, _, _, _, _, _, _)
DurationScan(s, i, stage, inTime, acc, num, numState, fractional) ==
    LET c == Ch(s, i) IN
    IF c = ""
    THEN (IF numState = "none"
          THEN [match |-> TRUE, seconds |-> acc, fractional |-> fractional]
          ELSE NoMatch)
    ELSE IF IsDigit(c)
    THEN (IF numState \in {"none", "int"}
          THEN DurationScan(s, i + 1, stage, inTime, acc, 10 * num + DigitVal(c),
                            "int", fractional)
          ELSE DurationScan(s, i + 1, stage, inTime, acc, num, "frac", TRUE))
    ELSE IF c \in {".", ","}
    THEN (IF numState = "int"
          THEN DurationScan(s, i + 1, stage, inTime, acc, num, "sep", fractional)
          ELSE NoMatch)
    ELSE IF c = "T"
    THEN (IF numState = "none" /\ ~inTime
          THEN DurationScan(s, i + 1, 4, TRUE, acc, 0, "none", fractional)
          ELSE NoMatch)
    ELSE LET r == UnitRank(c, inTime) IN
         IF numState \in {"int", "frac"} /\ r > stage
         THEN DurationScan(s, i + 1, r, inTime, acc + num * UnitSeconds(r), 0, "none",
                           fractional)
         ELSE NoMatch

RECURSIVE CountChar(_, _)
CountChar(s, c) ==
    IF s = "" THEN 0 ELSE (IF Head(s) = c THEN 1 ELSE 0) + CountChar(Tail(s), c)

parse_duration(s) ==
    LET \* the pattern's "$" also matches before a last newline
        body  == IF s # "" /\ Ch(s, Len(s) - 1) = "\n" THEN SubSeq(s, 1, Len(s) - 1) ELSE s
        signed == Ch(body, 0) \in {"+", "-"}
        p     == IF signed THEN 1 ELSE 0
        \* "P" is followed by the first component or by "T"
        m     == IF Ch(body, p) = "P" /\ (IsDigit(Ch(body, p + 1)) \/ Ch(body, p + 1) = "T")
                 THEN DurationScan(body, p + 1, 0, FALSE, 0, 0, "none", FALSE)
                 ELSE NoMatch
    IN  IF m.match
        THEN (IF m.fractional THEN NotModelled
              ELSE Value(IF Ch(body, 0) = "-" THEN -m.seconds ELSE m.seconds))
        \* the alternative format: a date, one "T" and a time after the "P"
        ELSE IF Ch(s, 0) = "P" /\ CountChar(Tail(s), "T") = 1 /\ IsDigit(Ch(s, 1))
        THEN NotModelled
        ELSE Raised

-----------------------------------------------------------------------------
(* float(x), as Gauge.set applies it to the value *)

\* the characters str.strip() removes
IsSpace(c) == c \in {" ", "\t", "\n", "\r", "\f"}

RECURSIVE LStrip(_)
LStrip(s) == IF s # "" /\ IsSpace(Head(s)) THEN LStrip(Tail(s)) ELSE s

RECURSIVE RStrip(_)
RStrip(s) ==
    IF s # "" /\ IsSpace(Ch(s, Len(s) - 1)) THEN RStrip(SubSeq(s, 1, Len(s) - 1)) ELSE s

\* s is word, whatever the case of its letters; word is in lower case
Upper(c) ==
    CASE c = "i" -> "I" [] c = "n" -> "N" [] c = "f" -> "F" [] c = "t" -> "T"
      [] c = "y" -> "Y" [] c = "a" -> "A"

IsWord(s, word) ==
    /\ Len(s) = Len(word)
    /\ \A i \in 0..(Len(word) - 1) : Ch(s, i) \in {Ch(word, i), Upper(Ch(word, i))}

(* Whether the characters of s from index i on complete a decimal float    *)
(* literal, the scanner being in state q:                                  *)
(*   "start" nothing read, "int" in the integer digits, "dot" after the    *)
(*   point of a literal that began with one, "frac" after the point or in  *)
(*   the fraction digits, "e" after the exponent letter, "esign" after the *)
(*   exponent's sign, "exp" in the exponent digits; a state followed by    *)
(*   "_" has just read an underscore and needs a digit.                    *)
RECURSIVE FloatScan(_, _, _)
FloatScan(s, i, q) ==
    LET c == Ch(s, i) IN
    IF c = "" THEN q \in {"int", "frac", "exp"}
    ELSE IF IsDigit(c) THEN
        FloatScan(s, i + 1,
                  CASE q \in {"start", "int", "int_"} -> "int"
                    [] q \in {"dot", "frac", "frac_"} -> "frac"
                    [] OTHER -> "exp")
    ELSE IF c = "_" THEN
        (CASE q = "int" -> FloatScan(s, i + 1, "int_")
           [] q = "frac" /\ IsDigit(Ch(s, i - 1)) -> FloatScan(s, i + 1, "frac_")
           [] q = "exp" -> FloatScan(s, i + 1, "exp_")
           [] OTHER -> FALSE)
    ELSE IF c = "." THEN
        (CASE q = "start" -> FloatScan(s, i + 1, "dot")
           [] q = "int" -> FloatScan(s, i + 1, "frac")
           [] OTHER -> FALSE)
    ELSE IF c \in {"e", "E"} THEN q \in {"int", "frac"} /\ FloatScan(s, i + 1, "e")
    ELSE IF c \in {"+", "-"} THEN q = "e" /\ FloatScan(s, i + 1, "esign")
    ELSE FALSE

(* float(s) for a string: ValueError unless s, stripped, is a float        *)
(* literal.  The value is given for the literals [+-]digits; the other     *)
(* literals (a fraction, an exponent, underscores, inf, nan) denote floats *)
(* the model has no value for.                                             *)
float_of_str(s) ==
    LET t    == RStrip(LStrip(s))
        neg  == Ch(t, 0) = "-"
        body == IF Ch(t, 0) \in {"+", "-"} THEN Tail(t) ELSE t
        n    == Len(body)
    IN  IF \E w \in {"inf", "infinity", "nan"} : IsWord(body, w) THEN NotModelled
        ELSE IF ~FloatScan(body, 0, "start") THEN Raised
        ELSE IF SkipDigits(body, 0) = n
        THEN Value((IF neg THEN -1 ELSE 1) * Number(body, 0, n))
        ELSE NotModelled

\* float(x): a number, or TypeError / ValueError
PyFloat(x) ==
    CASE x.t = "int" -> Value(x.v)
      [] x.t = "str" -> float_of_str(x.v)
      [] OTHER -> Raised

-----------------------------------------------------------------------------
(* The gauge registry (lines 26-67).  A gauge without labels is created    *)
(* with the value 0; a labelled gauge starts with no series and maps a     *)
(* tuple of label values to the value last set.                            *)

ScalarGauges ==
    {"monitoring_num_running_jobs", "monitoring_num_pending_jobs",
     "monitoring_temporal_workflow_failure", "monitoring_num_successful_syncs",
     "monitoring_num_failed_syncs", "monitoring_total_bytes_synced",
     "monitoring_total_rows_synced", "monitoring_active_connections",
     "monitoring_num_destinations", "monitoring_num_sources"}

JobLabelledGauges ==
    {"monitoring_last_successful_sync_timestamp",
     "monitoring_successful_syncs_per_connection",
     "monitoring_failed_syncs_per_connection"}

ConnectionLabelledGauges ==
    {"monitoring_connection_status", "monitoring_connection_info",
     "monitoring_connection_streams_count", "monitoring_connection_created_at"}

LabelledGauges == JobLabelledGauges \cup ConnectionLabelledGauges

NoSeries == <<>>

NewRegistry ==
    [g \in ScalarGauges \cup LabelledGauges \cup {"monitoring_avg_successful_sync_duration"} |->
        IF g \in ScalarGauges THEN 0
        ELSE IF g \in LabelledGauges THEN NoSeries
        ELSE Fraction(0, 1)]

\* gauge.set(v) on a gauge without labels
set_scalar(reg, g, v) == [reg EXCEPT ![g] = v]

\* a mutation of set_series: the gauge is rebuilt from the series being set
set_series_rebuilding(series, key, v) == (key :> v)

\* gauge.labels(...): the series of these labels, created at 0 when there is
\* none yet
labels(series, key) == IF key \in DOMAIN series THEN series ELSE (key :> 0) @@ series

\* gauge.labels(...).set(v): creates the series or overwrites its value
set_series(series, key, v) == (key :> v) @@ series

-----------------------------------------------------------------------------
(* update_connection_metrics *)

\* a mutation of clear_names: the mapping is not reset
clear_names_skipped(names) == names

\* connection_names.clear()
clear_names(names) == <<>>

(* One turn of the loop (lines 225-271) on the state st = [ok, names,      *)
(* active, registry].  An exception ends the aggregator and keeps what the *)
(* turn wrote before it.                                                   *)
ConnectionStep(st, connection) ==
    LET status        == Get(connection, "status", None)
        connection_id == Get(connection, "connectionId", None)
        name          == Get(connection, "name", Str("unknown"))
        source_id     == Get(connection, "sourceId", Str("unknown"))
        destination_id == Get(connection, "destinationId", Str("unknown"))
        schedule      == Get(connection, "schedule", Dict(<<>>))
        schedule_type == Get(schedule, "scheduleType", Str("unknown"))
        data_residency == Get(connection, "dataResidency", Str("unknown"))
        non_breaking_behavior ==
            Get(connection, "nonBreakingSchemaUpdatesBehavior", Str("unknown"))
        namespace_definition == Get(connection, "namespaceDefinition", Str("unknown"))
        prefix        == Get(connection, "prefix", Str("unknown"))
        created_at    == Get(connection, "createdAt", IntOf(0))
        configurations == Get(connection, "configurations", Dict(<<>>))
        streams       == Get(configurations, "streams", List(<<>>))
        streams_count == PyLen(streams)
        status_value  == IF status = Str("active") THEN 1 ELSE 0
        id            == PyStr(connection_id)
        value         == PyFloat(created_at)
        written ==
            [st.registry EXCEPT
               !["monitoring_connection_status"] =
                   set_series(@, <<id, PyStr(name), PyStr(source_id),
                                   PyStr(destination_id), PyStr(schedule_type)>>,
                              status_value),
               !["monitoring_connection_info"] =
                   set_series(@, <<id, PyStr(data_residency),
                                   PyStr(non_breaking_behavior),
                                   PyStr(namespace_definition), PyStr(prefix)>>, 1),
               !["monitoring_connection_streams_count"] =
                   set_series(@, <<id, PyStr(name)>>, streams_count)]
    IN  \* lines 226-237: .get on what is no dict, len() of what has none
        IF connection.t # "dict" THEN [st EXCEPT !.ok = FALSE]
        ELSE IF schedule.t # "dict" \/ configurations.t # "dict" THEN [st EXCEPT !.ok = FALSE]
        ELSE IF ~HasLen(streams) THEN [st EXCEPT !.ok = FALSE]
        \* line 240: a key that cannot be hashed
        ELSE IF ~Hashable(connection_id) THEN [st EXCEPT !.ok = FALSE]
        \* line 271: set(created_at) of what is no number raises in float(), after
        \* labels() has made the series
        ELSE IF ~value.ok
        THEN [ok |-> FALSE, names |-> (connection_id :> name) @@ st.names,
              active |-> st.active + status_value,
              registry |->
                 [written EXCEPT
                    !["monitoring_connection_created_at"] =
                        labels(@, <<id, PyStr(name)>>)]]
        ELSE [ok |-> TRUE, names |-> (connection_id :> name) @@ st.names,
              active |-> st.active + status_value,
              registry |->
                 [written EXCEPT
                    !["monitoring_connection_created_at"] =
                        set_series(@, <<id, PyStr(name)>>, value.val)]]

RECURSIVE ConnectionLoop(_, _)
ConnectionLoop(st, conns) ==
    IF conns = <<>> \/ ~st.ok THEN st
    ELSE ConnectionLoop(ConnectionStep(st, Head(conns)), Tail(conns))

\* line 274, when the loop ended without an exception
\* [ok: no exception, names: the new connection_names, registry: the new registry]
set_active_connections(st) ==
    IF ~st.ok THEN [ok |-> FALSE, names |-> st.names, registry |-> st.registry]
    ELSE [ok |-> TRUE, names |-> st.names,
          registry |-> set_scalar(st.registry, "monitoring_active_connections",
                                  st.active)]

\* lines 222-274 on the items of connections
connection_metrics_of(items, names, reg) ==
    IF ~items.ok THEN [ok |-> FALSE, names |-> clear_names(names), registry |-> reg]
    ELSE set_active_connections(
             ConnectionLoop([ok |-> TRUE, names |-> clear_names(names), active |-> 0,
                             registry |-> reg], items.val))

update_connection_metrics(conns, names, reg) ==
    connection_metrics_of(Iterate(conns), names, reg)

-----------------------------------------------------------------------------
(* update_job_metrics *)

\* a mutation of CountStatus: the three counters are kept for sync jobs only
CountStatusSyncOnly(acc, job) ==
    LET status == Get(job, "status", None) IN
    IF Get(job, "jobType", None) # Str("sync") THEN acc
    ELSE IF status = Str("running") THEN [acc EXCEPT !.running_jobs = @ + 1]
    ELSE IF status = Str("pending") THEN [acc EXCEPT !.pending_jobs = @ + 1]
    ELSE IF status = Str("failed") THEN [acc EXCEPT !.workflow_failures = @ + 1]
    ELSE acc

\* lines 156-163: the general job counters
CountStatus(acc, job) ==
    LET status == Get(job, "status", None) IN
    IF status = Str("running") THEN [acc EXCEPT !.running_jobs = @ + 1]
    ELSE IF status = Str("pending") THEN [acc EXCEPT !.pending_jobs = @ + 1]
    ELSE IF status = Str("failed") THEN [acc EXCEPT !.workflow_failures = @ + 1]
    ELSE acc

\* a mutation of KeepLatest: the last job seen wins
KeepLatestOverwriting(last, connection_id, ts) == DictPut(last, connection_id, ts)

\* lines 174-175: keep the maximum timestamp per connection
KeepLatest(last, connection_id, ts) ==
    IF ~DictHas(last, connection_id) \/ ~EpochGe(DictGet(last, connection_id, ts), ts)
    THEN DictPut(last, connection_id, ts)
    ELSE last

\* defaultdict(int)[k] += 1
Increment(counts, k) == DictPut(counts, k, DictGet(counts, k, 0) + 1)

\* lines 174-175 with the timestamp parsed: the new last_successful_sync
KeepParsed(last, connection_id, ts) ==
    IF ts.ok THEN Value(KeepLatest(last, connection_id, ts.val)) ELSE Raised

\* lines 172-175: last_successful_sync after the job, or the exception of
\* parse_timestamp (of what is no string, or does not parse)
LastSuccessfulSync(last, connection_id, updated_at, tz) ==
    IF ~(Truthy(connection_id) /\ Truthy(updated_at)) THEN Value(last)
    ELSE IF updated_at.t # "str" THEN Raised
    ELSE KeepParsed(last, connection_id, parse_timestamp(updated_at.v, tz))

\* line 183 with the duration parsed
AppendParsed(durations, seconds) ==
    IF seconds.ok THEN Value(Append(durations, seconds.val)) ELSE Raised

\* lines 180-183: successful_sync_durations after the job, or the exception
\* of isodate.parse_duration
SyncDurations(durations, duration_str) ==
    IF ~Truthy(duration_str) THEN Value(durations)
    ELSE IF duration_str.t # "str" THEN Raised
    ELSE AppendParsed(durations, parse_duration(duration_str.v))

\* lines 170-183 on a succeeded sync job; the sum of an int and what is none
\* raises
SucceededStep(acc, job, last, durations) ==
    LET connection_id == Get(job, "connectionId", None)
        bytes == Get(job, "bytesSynced", IntOf(0))
        rows  == Get(job, "rowsSynced", IntOf(0))
    IN  IF ~last.ok \/ bytes.t # "int" \/ rows.t # "int" \/ ~durations.ok
        THEN [acc EXCEPT !.raised = TRUE]
        ELSE [acc EXCEPT
                !.successful_syncs = @ + 1,
                !.last_successful_sync = last.val,
                !.successful_syncs_per_connection = Increment(@, connection_id),
                !.total_bytes_synced = @ + bytes.v,
                !.total_rows_synced = @ + rows.v,
                !.successful_sync_durations = durations.val]

(* lines 166-186: the sync-specific accumulators.  raised is set by        *)
(* connection_names.get of a key that cannot be hashed and by the          *)
(* exceptions of a succeeded job.                                          *)
SyncStep(acc, job, tz) ==
    LET status        == Get(job, "status", None)
        connection_id == Get(job, "connectionId", None)
    IN  IF Get(job, "jobType", None) # Str("sync") THEN acc
        ELSE IF ~Hashable(connection_id) THEN [acc EXCEPT !.raised = TRUE]
        ELSE IF status = Str("succeeded") THEN
            SucceededStep(acc, job,
                          LastSuccessfulSync(acc.last_successful_sync, connection_id,
                                             Get(job, "lastUpdatedAt", None), tz),
                          SyncDurations(acc.successful_sync_durations,
                                        Get(job, "duration", None)))
        ELSE IF status = Str("failed") THEN
            [acc EXCEPT !.failed_syncs = @ + 1,
                        !.failed_syncs_per_connection = Increment(@, connection_id)]
        ELSE acc

\* lines 143-153
JobAccumulators ==
    [running_jobs |-> 0, pending_jobs |-> 0, workflow_failures |-> 0,
     successful_syncs |-> 0, failed_syncs |-> 0, last_successful_sync |-> <<>>,
     total_bytes_synced |-> 0, total_rows_synced |-> 0,
     successful_sync_durations |-> <<>>,
     successful_syncs_per_connection |-> <<>>,
     failed_syncs_per_connection |-> <<>>, raised |-> FALSE]

\* lines 155-186: the loop stops at the first job that raises; a job that is
\* no dict raises at line 156
RECURSIVE JobLoop(_, _, _)
JobLoop(acc, js, tz) ==
    IF js = <<>> \/ acc.raised THEN acc
    ELSE IF Head(js).t # "dict" THEN [acc EXCEPT !.raised = TRUE]
    ELSE JobLoop(SyncStep(CountStatus(acc, Head(js)), Head(js), tz), Tail(js), tz)

\* lines 202-212: one labelled gauge set from a per-connection dict, in the
\* order of the dict
RECURSIVE SetPerConnection(_, _, _)
SetPerConnection(series, values, names) ==
    IF values = <<>> THEN series
    ELSE LET connection_id == Head(values)[1]
             name == IF connection_id \in DOMAIN names THEN names[connection_id]
                     ELSE Str("unknown")
         IN  SetPerConnection(set_series(series, <<PyStr(connection_id), PyStr(name)>>,
                                         Head(values)[2]),
                              Tail(values), names)

\* the keys SetPerConnection goes through, each with the name it resolves to
SeriesKeys(values, names) ==
    {<<c, IF c \in DOMAIN names THEN PyStr(names[c]) ELSE "unknown">> :
        c \in DictKeys(values)}

\* lines 188-212: the gauges set from the accumulators
\* [ok: no exception, registry: the new registry, touched: the series set]
set_job_metrics(acc, names, reg) ==
    LET n == Len(acc.successful_sync_durations)
        avg_duration == IF n > 0 THEN Fraction(SeqSum(acc.successful_sync_durations), n)
                        ELSE Fraction(0, 1)
    IN  IF acc.raised
        THEN [ok |-> FALSE, registry |-> reg,
              touched |-> [g \in JobLabelledGauges |-> {}]]
        ELSE [ok |-> TRUE,
              registry |->
                [reg EXCEPT
                   !["monitoring_num_running_jobs"] = acc.running_jobs,
                   !["monitoring_num_pending_jobs"] = acc.pending_jobs,
                   !["monitoring_temporal_workflow_failure"] = acc.workflow_failures,
                   !["monitoring_num_successful_syncs"] = acc.successful_syncs,
                   !["monitoring_num_failed_syncs"] = acc.failed_syncs,
                   !["monitoring_total_bytes_synced"] = acc.total_bytes_synced,
                   !["monitoring_total_rows_synced"] = acc.total_rows_synced,
                   !["monitoring_avg_successful_sync_duration"] = avg_duration,
                   !["monitoring_last_successful_sync_timestamp"] =
                       SetPerConnection(@, acc.last_successful_sync, names),
                   !["monitoring_successful_syncs_per_connection"] =
                       SetPerConnection(@, acc.successful_syncs_per_connection, names),
                   !["monitoring_failed_syncs_per_connection"] =
                       SetPerConnection(@, acc.failed_syncs_per_connection, names)],
              touched |->
                [g \in JobLabelledGauges |->
                   IF g = "monitoring_last_successful_sync_timestamp"
                   THEN SeriesKeys(acc.last_successful_sync, names)
                   ELSE IF g = "monitoring_successful_syncs_per_connection"
                   THEN SeriesKeys(acc.successful_syncs_per_connection, names)
                   ELSE SeriesKeys(acc.failed_syncs_per_connection, names)]]

\* the loop over the items of jobs, then the gauges
job_metrics_of(items, names, reg, tz) ==
    IF ~items.ok
    THEN [ok |-> FALSE, registry |-> reg, touched |-> [g \in JobLabelledGauges |-> {}]]
    ELSE set_job_metrics(JobLoop(JobAccumulators, items.val, tz), names, reg)

update_job_metrics(js, names, reg, tz) == job_metrics_of(Iterate(js), names, reg, tz)

\* update_destination_metrics: [ok, registry]; len() of None or a number raises
update_destination_metrics(dests, reg) ==
    IF ~HasLen(dests) THEN [ok |-> FALSE, registry |-> reg]
    ELSE [ok |-> TRUE, registry |-> set_scalar(reg, "monitoring_num_destinations",
                                               PyLen(dests))]

\* update_source_metrics: [ok, registry]
update_source_metrics(srcs, reg) ==
    IF ~HasLen(srcs) THEN [ok |-> FALSE, registry |-> reg]
    ELSE [ok |-> TRUE, registry |-> set_scalar(reg, "monitoring_num_sources",
                                               PyLen(srcs))]

(* lines 310-313: the aggregators in order, up to the first that raises.   *)
(* st = [ok, ran, names, registry, touched]: ran lists the aggregators     *)
(* that returned.                                                          *)
after_connections(st, c) ==
    [st EXCEPT !.ok = c.ok, !.names = c.names, !.registry = c.registry,
               !.ran = IF c.ok THEN Append(@, "connections") ELSE @]

after_jobs(st, j) ==
    [st EXCEPT !.ok = j.ok, !.registry = j.registry, !.touched = j.touched,
               !.ran = IF j.ok THEN Append(@, "jobs") ELSE @]

after_destinations(st, d) ==
    [st EXCEPT !.ok = d.ok, !.registry = d.registry,
               !.ran = IF d.ok THEN Append(@, "destinations") ELSE @]

after_sources(st, s) ==
    [st EXCEPT !.ok = s.ok, !.registry = s.registry,
               !.ran = IF s.ok THEN Append(@, "sources") ELSE @]

run_connections(st, conns) ==
    after_connections(st, update_connection_metrics(conns, st.names, st.registry))

run_jobs(st, js, tz) ==
    IF ~st.ok THEN st
    ELSE after_jobs(st, update_job_metrics(js, st.names, st.registry, tz))

run_destinations(st, dests) ==
    IF ~st.ok THEN st
    ELSE after_destinations(st, update_destination_metrics(dests, st.registry))

run_sources(st, srcs) ==
    IF ~st.ok THEN st
    ELSE after_sources(st, update_source_metrics(srcs, st.registry))

run_aggregators(conns, js, dests, srcs, names, reg, tz) ==
    run_sources(
        run_destinations(
            run_jobs(
                run_connections([ok |-> TRUE, ran |-> <<>>, names |-> names,
                                 registry |-> reg,
                                 touched |-> [g \in JobLabelledGauges |-> {}]],
                                conns),
                js, tz),
            dests),
        srcs)

-----------------------------------------------------------------------------
(* What the Airbyte API returns: the inputs of the model *)

SeqsUpTo(S, n) == UNION {[1..k -> S] : k \in 0..n}

\* zones the process may run in: UTC, one with a fixed offset (UTC-5), and one
\* with daylight time
LocalZones == {"UTC", "EST", "America/New_York"}

TsEarly == "2023-01-01T00:00:00Z"
TsLate == "2023-01-02T00:30:00+02:00"
\* half a second after TsEarly
TsFraction == "2023-01-01T00:00:00.500Z"
\* no offset: the time of the local zone
TsNaive == "2023-01-01T05:00:00"
\* local times of the night the clocks of New York went forward from 02:00 to
\* 03:00: the first one was skipped there
TsSkipped == "2023-03-12T02:30:00"
TsForward == "2023-03-12T03:00:00"
\* beyond 2^31 seconds
TsFar == "2100-03-01T00:00:00Z"
TsMalformed == "2023-13-01T00:00:00Z"
Dur30S == "PT30S"
Dur1M30S == "PT1M30S"
DurMalformed == "30s"

\* a dict with the key k, or without it
Optional(k, S) == {<<>>} \cup {(k :> v) : v \in S}

\* jobs that are not succeeded: no timestamp or duration is read from them
OtherJobs ==
    {Dict(s @@ [jobType |-> Str("sync"), connectionId |-> Str("c1")]) :
        s \in Optional("status", {Str("running"), Str("pending"), Str("failed"),
                                  Str("cancelled")})}
    \cup {Dict([status |-> s, jobType |-> Str("reset"), connectionId |-> Str("c1")]) :
            s \in {Str("running"), Str("failed")}}
    \cup {Dict([status |-> Str("failed"), jobType |-> Str("sync"),
                connectionId |-> Str("c2")]),
          Dict([status |-> Str("failed"), jobType |-> Str("sync")]),
          Dict([status |-> Str("failed"), jobType |-> Str("sync"),
                connectionId |-> Str("None")])}

SucceededSync ==
    [status |-> Str("succeeded"), jobType |-> Str("sync"), bytesSynced |-> IntOf(100),
     rowsSynced |-> IntOf(10)]

SucceededJobs ==
    {Dict(SucceededSync @@ [connectionId |-> Str("c1")] @@ u) :
        u \in Optional("lastUpdatedAt",
                       {Str(TsEarly), Str(TsLate), Str(TsFraction), Str(TsNaive),
                        Str(TsSkipped), Str(TsForward), Str(TsMalformed)})}
    \cup {Dict(SucceededSync @@ [connectionId |-> Str("c2"),
                                 lastUpdatedAt |-> Str(TsFar)]),
          Dict(SucceededSync @@ [lastUpdatedAt |-> Str(TsEarly)])}
    \cup {Dict([status |-> Str("succeeded"), jobType |-> Str("sync"),
                connectionId |-> Str("c1"), lastUpdatedAt |-> Str(TsEarly),
                duration |-> d]) : d \in {Str(Dur30S), Str(DurMalformed)}}
    \cup {Dict([status |-> Str("succeeded"), jobType |-> Str("reset"),
                connectionId |-> Str("c1"), lastUpdatedAt |-> Str(TsLate)]),
          Dict([status |-> Str("succeeded"), jobType |-> Str("sync"),
                connectionId |-> Str("c1"), bytesSynced |-> None])}

JobPool == OtherJobs \cup SucceededJobs

JobSucceeded ==
    Dict([status |-> Str("succeeded"), jobType |-> Str("sync"),
          connectionId |-> Str("c1"), lastUpdatedAt |-> Str(TsEarly),
          duration |-> Str(Dur1M30S), bytesSynced |-> IntOf(100), rowsSynced |-> IntOf(10)])
JobFailed ==
    Dict([status |-> Str("failed"), jobType |-> Str("sync"), connectionId |-> Str("c2")])
JobRunning == Dict([status |-> Str("running"), jobType |-> Str("reset")])
JobMalformed ==
    Dict([status |-> Str("succeeded"), jobType |-> Str("sync"),
          connectionId |-> Str("c1"), lastUpdatedAt |-> Str(TsMalformed)])

ConnFoo ==
    Dict([connectionId |-> Str("c1"), name |-> Str("Foo"), status |-> Str("active"),
          sourceId |-> Str("s1"), destinationId |-> Str("d1"),
          schedule |-> Dict([scheduleType |-> Str("cron")]),
          dataResidency |-> Str("auto"),
          nonBreakingSchemaUpdatesBehavior |-> Str("ignore"),
          namespaceDefinition |-> Str("source"), prefix |-> Str("p_"),
          createdAt |-> IntOf(1700000000),
          configurations |->
              Dict([streams |-> List(<<Dict([name |-> Str("users")]),
                                       Dict([name |-> Str("orders")])>>)])])
\* c1 renamed and paused
ConnBar ==
    Dict([connectionId |-> Str("c1"), name |-> Str("Bar"), status |-> Str("inactive")])
ConnTwo == Dict([connectionId |-> Str("c2"), status |-> Str("active")])
\* "schedule": null
ConnNullSchedule ==
    Dict([connectionId |-> Str("c2"), status |-> Str("active"), schedule |-> None])
\* createdAt as a date
ConnDatedCreatedAt ==
    Dict([connectionId |-> Str("c2"), status |-> Str("active"),
          createdAt |-> Str(TsEarly)])
\* no connectionId, and the connectionId "None"
ConnNoId == Dict([name |-> Str("A")])
ConnNoneStr == Dict([connectionId |-> Str("None"), name |-> Str("B")])

Item == Dict([name |-> Str("item")])

\* the connectionId each connection of the list is stored under
ConnIdsOf(conns) ==
    IF conns.t # "list" THEN {}
    ELSE {Get(conns.v[i], "connectionId", None) :
            i \in {j \in DOMAIN conns.v : conns.v[j].t = "dict"}}

\* the k-th token the authorization endpoint issues
AccessToken(k) == Str("token" \o IntToStr(k))

(* An environment: how many steps of the loop are followed, how long an    *)
(* HTTP call may take, the expires_in the token endpoint may answer, the   *)
(* access_token values it may answer besides a fresh token, and the "data" *)
(* the endpoints may return when they answer (a GET that fails yields the  *)
(* empty list).                                                            *)
PollEnv ==
    [cycles |-> MaxCycles, deltas |-> {0}, expires |-> {100}, tokens |-> {Str("")},
     jobLists |-> {List(<<JobSucceeded, JobFailed, JobRunning>>),
                   List(<<JobMalformed>>)},
     connLists |-> {List(<<ConnFoo>>), List(<<ConnBar, ConnTwo>>), List(<<ConnTwo>>),
                    List(<<ConnDatedCreatedAt>>)},
     itemLists |-> {List(<<Item>>)}]

ClockEnv ==
    [cycles |-> MaxClockCycles, deltas |-> {0, 40}, expires |-> {30, 300},
     tokens |-> {Str(""), None},
     jobLists |-> {List(<<JobMalformed>>)},
     connLists |-> {List(<<ConnFoo>>)},
     itemLists |-> {List(<<>>)}]

-----------------------------------------------------------------------------
(* The poll loop *)

Endpoints == {"jobs", "connections", "destinations", "sources"}

\* the statement that follows the GET of an endpoint (lines 304-310)
AfterFetch(ep) ==
    CASE ep = "jobs" -> "connections"
      [] ep = "connections" -> "destinations"
      [] ep = "destinations" -> "sources"
      [] ep = "sources" -> "update"

NoTouched == [g \in JobLabelledGauges |-> {}]

AllAggregators == <<"connections", "jobs", "destinations", "sources">>

Init ==
    /\ pc = "refresh"
    /\ now = 0
    /\ timezone \in LocalZones
    /\ current_token = None
    /\ token_expiry = 0
    /\ connection_names = <<>>
    /\ registry = NewRegistry
    /\ jobs = List(<<>>) /\ connections = List(<<>>)
    /\ destinations = List(<<>>) /\ sources = List(<<>>)
    /\ cycle = 1
    /\ issued = 0
    /\ exch = "none"
    /\ attempted = {} /\ failed = {}
    /\ ran = <<>>
    /\ touched = NoTouched
    /\ authFailedLast = FALSE
    /\ prevConnIds = {}

\* a mutation of except_handler: the exception leaves main
except_propagates == "exited"

\* lines 315-316: the exception is logged and fetch_airbyte_metrics returns
except_handler == "sleep"

\* line 104: no token, an empty or null one, or one about to expire
NeedsRefresh == ~Truthy(current_token) \/ now >= token_expiry - REFRESH_MARGIN

StepLocals == <<jobs, connections, destinations, sources, attempted, failed, ran,
                touched>>
Metrics == <<connection_names, registry>>
LoopHistory == <<cycle, authFailedLast, prevConnIds, timezone>>

\* what token_data['access_token'] may be: a token that was never issued
\* before, or one of the other values of the environment
AccessTokens(env) == {AccessToken(issued + 1)} \cup env.tokens

\* refresh_token_if_needed, the exchange succeeding (lines 82-94): whatever the
\* answer holds as access_token is the token, an empty or null one too
GetNewTokenOk(env) ==
    /\ pc = "refresh" /\ NeedsRefresh
    /\ \E d \in env.deltas, e \in env.expires :
          /\ now' = now + d
          /\ token_expiry' = now' + e
    /\ \E access_token \in AccessTokens(env) : current_token' = access_token
    /\ issued' = issued + 1
    /\ exch' = "ok"
    /\ pc' = "jobs"
    /\ UNCHANGED <<StepLocals, Metrics, LoopHistory>>

\* the exchange raising before line 92: network error, non-2xx, no access_token
GetNewTokenFails(env) ==
    /\ pc = "refresh" /\ NeedsRefresh
    /\ \E d \in env.deltas : now' = now + d
    /\ exch' = "failed"
    /\ pc' = except_handler
    /\ UNCHANGED <<current_token, token_expiry, issued, StepLocals, Metrics, LoopHistory>>

\* the exchange raising at line 93: access_token is there, expires_in is not
GetNewTokenFailsOnExpiresIn(env) ==
    /\ pc = "refresh" /\ NeedsRefresh
    /\ \E d \in env.deltas : now' = now + d
    /\ \E access_token \in AccessTokens(env) : current_token' = access_token
    /\ issued' = issued + 1
    /\ exch' = "failed"
    /\ pc' = except_handler
    /\ UNCHANGED <<token_expiry, StepLocals, Metrics, LoopHistory>>

\* refresh_token_if_needed with nothing to do
NoRefreshNeeded(env) ==
    /\ pc = "refresh" /\ ~NeedsRefresh
    /\ \E d \in env.deltas : now' = now + d
    /\ exch' = "none"
    /\ pc' = "jobs"
    /\ UNCHANGED <<current_token, token_expiry, issued, StepLocals, Metrics, LoopHistory>>

Payloads(env, ep) ==
    CASE ep = "jobs" -> env.jobLists
      [] ep = "connections" -> env.connLists
      [] OTHER -> env.itemLists

\* the assignment of fetch_airbyte_data's result (lines 304-307)
Assign(ep, data) ==
    /\ jobs' = IF ep = "jobs" THEN data ELSE jobs
    /\ connections' = IF ep = "connections" THEN data ELSE connections
    /\ destinations' = IF ep = "destinations" THEN data ELSE destinations
    /\ sources' = IF ep = "sources" THEN data ELSE sources

\* fetch_airbyte_data answering with the endpoint's data; the GET is sent at
\* time now, carrying current_token, and the answer comes d seconds later
FetchOk(env, ep) ==
    /\ pc = ep
    /\ \E d \in env.deltas : now' = now + d
    /\ \E data \in Payloads(env, ep) : Assign(ep, data)
    /\ attempted' = attempted \cup {ep}
    /\ pc' = AfterFetch(ep)
    /\ UNCHANGED <<current_token, token_expiry, issued, exch, failed, ran, touched,
                   Metrics, LoopHistory>>

\* fetch_airbyte_data catching an exception: the empty list (lines 119-121)
FetchFails(env, ep) ==
    /\ pc = ep
    /\ \E d \in env.deltas : now' = now + d
    /\ Assign(ep, List(<<>>))
    /\ attempted' = attempted \cup {ep}
    /\ failed' = failed \cup {ep}
    /\ pc' = AfterFetch(ep)
    /\ UNCHANGED <<current_token, token_expiry, issued, exch, ran, touched,
                   Metrics, LoopHistory>>

\* what the aggregators leave: r is the result of run_aggregators
Publish(r) ==
    /\ connection_names' = r.names
    /\ registry' = r.registry
    /\ touched' = r.touched
    /\ ran' = r.ran

AggregatorsReturn(r) == r.ran = AllAggregators /\ Publish(r)

AggregatorsRaise(r) == r.ran # AllAggregators /\ Publish(r)

\* lines 310-313 with every aggregator returning
UpdateAll ==
    /\ pc = "update"
    /\ AggregatorsReturn(run_aggregators(connections, jobs, destinations, sources,
                                         connection_names, registry, timezone))
    /\ pc' = "sleep"
    /\ UNCHANGED <<now, current_token, token_expiry, issued, exch, jobs, connections,
                   destinations, sources, attempted, failed, LoopHistory>>

\* lines 310-313 with an aggregator raising: the ones after it are skipped and
\* what was written before the exception stays
UpdateRaises ==
    /\ pc = "update"
    /\ AggregatorsRaise(run_aggregators(connections, jobs, destinations, sources,
                                        connection_names, registry, timezone))
    /\ pc' = except_handler
    /\ UNCHANGED <<now, current_token, token_expiry, issued, exch, jobs, connections,
                   destinations, sources, attempted, failed, LoopHistory>>

\* main: time.sleep(METRICS_UPDATE_INTERVAL), then the next fetch_airbyte_metrics()
Sleep(env) ==
    /\ pc = "sleep"
    /\ cycle < env.cycles
    /\ cycle' = cycle + 1
    /\ now' = now + METRICS_UPDATE_INTERVAL
    /\ authFailedLast' = (exch = "failed")
    /\ prevConnIds' = ConnIdsOf(connections)
    /\ jobs' = List(<<>>) /\ connections' = List(<<>>)
    /\ destinations' = List(<<>>) /\ sources' = List(<<>>)
    /\ attempted' = {} /\ failed' = {}
    /\ ran' = <<>>
    /\ touched' = NoTouched
    /\ exch' = "none"
    /\ pc' = "refresh"
    /\ UNCHANGED <<timezone, current_token, token_expiry, issued, Metrics>>

PollStep(env) ==
    \/ GetNewTokenOk(env)
    \/ GetNewTokenFails(env)
    \/ GetNewTokenFailsOnExpiresIn(env)
    \/ NoRefreshNeeded(env)
    \/ \E ep \in Endpoints : FetchOk(env, ep)
    \/ \E ep \in Endpoints : FetchFails(env, ep)
    \/ UpdateAll
    \/ UpdateRaises

Next == PollStep(PollEnv) \/ Sleep(PollEnv)

Spec == Init /\ [][Next]_vars

NextClock == PollStep(ClockEnv) \/ Sleep(ClockEnv)

\* the zone plays no part in the token logic
InitClock == Init /\ timezone = "UTC"

SpecClock == InitClock /\ [][NextClock]_vars

(* The aggregators on their own: fetch_airbyte_metrics at line 310, every  *)
(* GET answered, with any jobs list of the pool and some connections and   *)
(* destinations.                                                           *)
InitJobs ==
    /\ pc = "update"
    /\ now = 0
    /\ timezone \in LocalZones
    /\ current_token = AccessToken(1)
    /\ token_expiry = 100
    /\ connection_names = <<>>
    /\ registry = NewRegistry
    /\ jobs \in {List(q) : q \in SeqsUpTo(JobPool, MaxJobs)}
    /\ \E p \in {<<List(<<ConnFoo>>), List(<<>>)>>,
                  <<List(<<ConnBar, ConnTwo>>), List(<<>>)>>,
                  <<List(<<ConnNoId, ConnNoneStr>>), List(<<>>)>>,
                  <<List(<<ConnFoo, ConnNullSchedule>>), List(<<>>)>>,
                  \* "data": null from the destinations endpoint
                  <<List(<<ConnFoo>>), None>>} :
          connections = p[1] /\ destinations = p[2]
    /\ sources = List(<<Item>>)
    /\ cycle = 1
    /\ issued = 1
    /\ exch = "ok"
    /\ attempted = Endpoints /\ failed = {}
    /\ ran = <<>>
    /\ touched = NoTouched
    /\ authFailedLast = FALSE
    /\ prevConnIds = {}

NextJobs == UpdateAll \/ UpdateRaises

SpecJobs == InitJobs /\ [][NextJobs]_vars

(* The scheduling of a sequential program: a statement that only computes  *)
(* does complete, so the aggregators return or raise and time.sleep        *)
(* returns.  Nothing of the kind holds of the HTTP calls: the POST of line *)
(* 82 and the GET of line 116 carry no timeout, and a peer that never      *)
(* answers keeps the loop at that statement for ever.  The sleep after the *)
(* last step explored is where the model ends.                             *)
Advance ==
    \/ /\ pc = "update"
       /\ pc' = "sleep"
    \/ /\ pc = "sleep" /\ cycle < MaxCycles
       /\ pc' = "refresh"

FairSpec == Spec /\ WF_pc(Advance)

-----------------------------------------------------------------------------
(* Properties *)

\* the step is over and update_connection_metrics returned: update_job_metrics ran
JobAggregatorRan == pc = "sleep" /\ Len(ran) >= 1

\* the step is over and update_job_metrics returned
JobAggregatorCompleted == pc = "sleep" /\ Len(ran) >= 2

\* the connectionIds of the jobs explored
ConnIds == {Str("c1"), Str("c2")}

Local(ep) ==
    CASE ep = "jobs" -> jobs
      [] ep = "connections" -> connections
      [] ep = "destinations" -> destinations
      [] ep = "sources" -> sources

HasStatus(job, s) == job.t = "dict" /\ Get(job, "status", None) = Str(s)

IsSucceededSync(job) ==
    HasStatus(job, "succeeded") /\ Get(job, "jobType", None) = Str("sync")

\* the jobs of the step, when the endpoint gave a list
JobList == IF jobs.t = "list" THEN jobs.v ELSE <<>>

CountJobs(s) == Cardinality({i \in DOMAIN JobList : HasStatus(JobList[i], s)})

\* C1: every authenticated GET is sent more than 60 seconds before the expiry
\* of the token it carries.
C1_TokenNeverUsedNearExpiry ==
    [][(pc \in Endpoints /\ pc' # pc) => now < token_expiry - 60]_vars

\* C2: the poll loop has no terminal state: the process never leaves the loop,
\* a failed GET moves on to the next statement, a step that meets a failed
\* exchange or an aggregator that raises ends at the sleep, and a step whose
\* HTTP calls are over is followed by the sleep and by another step.
C2_LoopNeverStops ==
    /\ [](pc \in Endpoints \cup {"refresh", "update", "sleep"})
    /\ [][(exch' = "failed" /\ pc = "refresh") \/ (pc = "update" /\ ran' # AllAggregators)
            => pc' = "sleep"]_vars
    /\ [][\A ep \in Endpoints : (pc = ep /\ ep \in failed') => pc' = AfterFetch(ep)]_vars
    /\ \A k \in 1..(MaxCycles - 1) :
          (cycle = k /\ pc \in {"update", "sleep"}) ~> (cycle = k + 1 /\ pc = "refresh")

\* a step in which two GETs failed and the Job Aggregator raised has ended at the sleep
C2_Witness ==
    pc = "sleep" /\ Cardinality(failed) >= 2 /\ ran = <<"connections">> /\ cycle < MaxCycles

\* C3: a failed token exchange aborts only its step: no GET is sent, no
\* aggregator runs, the gauges and the Connection Index keep their values, and
\* the next step attempts the exchange again.  (The last part fails: an
\* exchange that raises at line 93 has replaced an empty token by a new one
\* and kept an expiry that is not near.)
C3_AuthFaultAbortsOnlyTheStep ==
    /\ []((pc = "sleep" /\ exch = "failed") => (attempted = {} /\ ran = <<>>))
    /\ [][(pc = "refresh" /\ exch' = "failed")
            => (registry' = registry /\ connection_names' = connection_names
                /\ pc' = "sleep")]_vars
    /\ [][(pc = "refresh" /\ authFailedLast /\ pc' # "refresh") => exch' # "none"]_vars

\* C4: in a step whose refresh succeeds and some GETs fail, all four GETs are
\* sent, all four aggregators run, and each failed endpoint is an empty list.
C4_FetchFaultNeverAbortsTheStep ==
    (pc = "sleep" /\ exch # "failed" /\ failed # {})
        => /\ attempted = Endpoints
           /\ ran = AllAggregators
           /\ \A ep \in failed : Local(ep) = List(<<>>)

\* C5: when the Job Aggregator runs, the Connection Index holds exactly the
\* connections fetched in the same step, and a job series of a connectionId
\* that is not among them carries the name "unknown".
C5_IndexIsThisStepsConnections ==
    JobAggregatorRan =>
        /\ DOMAIN connection_names = ConnIdsOf(connections)
        /\ \A c \in DOMAIN connection_names :
              \E i \in DOMAIN connections.v :
                 /\ Get(connections.v[i], "connectionId", None) = c
                 /\ Get(connections.v[i], "name", Str("unknown")) = connection_names[c]
        /\ \A g \in JobLabelledGauges : \A k \in touched[g] :
              k[1] \notin ConnIdsOf(connections) => k[2] = "unknown"

\* c1 was a connection of the previous step, is none of this step, and a job
\* series of c1 was set in this step under the name "unknown"
C5_Witness ==
    /\ JobAggregatorCompleted
    /\ Str("c1") \in prevConnIds /\ Str("c1") \notin ConnIdsOf(connections)
    /\ <<Str("c1"), "unknown">> \in touched["monitoring_last_successful_sync_timestamp"]
    /\ <<"c1", "Foo">> \in DOMAIN registry["monitoring_last_successful_sync_timestamp"]

HasMalformedField(job, tz) ==
    LET updated_at == Get(job, "lastUpdatedAt", None)
        duration_str == Get(job, "duration", None)
    IN  \/ /\ updated_at.t = "str" /\ Truthy(updated_at)
           /\ ~parse_timestamp(updated_at.v, tz).ok
        \/ /\ duration_str.t = "str" /\ Truthy(duration_str)
           /\ ~parse_duration(duration_str.v).ok

\* C6: a malformed lastUpdatedAt or duration on a succeeded sync job does not
\* abort the step: the job gauges are set from the jobs and the Destination and
\* Source Aggregators run.
C6_MalformedFieldIsIsolated ==
    (pc = "sleep" /\ \E i \in DOMAIN JobList :
                        /\ IsSucceededSync(JobList[i])
                        /\ HasMalformedField(JobList[i], timezone))
        => /\ ran = AllAggregators
           /\ registry["monitoring_num_running_jobs"] = CountJobs("running")
           /\ registry["monitoring_num_sources"] = PyLen(sources)

\* C7: after the Job Aggregator the running, pending and failed gauges are the
\* numbers of jobs with exactly that status, whatever the jobType; no job is
\* counted twice and no other status is counted.
C7_StatusCounts ==
    JobAggregatorCompleted =>
        /\ registry["monitoring_num_running_jobs"] = CountJobs("running")
        /\ registry["monitoring_num_pending_jobs"] = CountJobs("pending")
        /\ registry["monitoring_temporal_workflow_failure"] = CountJobs("failed")
        /\ registry["monitoring_num_running_jobs"] + registry["monitoring_num_pending_jobs"]
             + registry["monitoring_temporal_workflow_failure"]
           = Cardinality({i \in DOMAIN JobList :
                 \E s \in {"running", "pending", "failed"} : HasStatus(JobList[i], s)})

\* two jobs, one running and not a sync job, one failed: the gauges read 1, 0, 1
C7_Witness ==
    /\ JobAggregatorCompleted /\ Len(JobList) = 2
    /\ HasStatus(JobList[1], "running") /\ Get(JobList[1], "jobType", None) = Str("reset")
    /\ HasStatus(JobList[2], "failed")
    /\ registry["monitoring_num_running_jobs"] = 1
    /\ registry["monitoring_num_pending_jobs"] = 0
    /\ registry["monitoring_temporal_workflow_failure"] = 1

\* the succeeded sync jobs of connection c that carry a lastUpdatedAt
DatedSyncs(c) ==
    {i \in DOMAIN JobList : /\ IsSucceededSync(JobList[i])
                            /\ Get(JobList[i], "connectionId", None) = c
                            /\ Truthy(Get(JobList[i], "lastUpdatedAt", None))}

\* the latest of a set of instants
MaxEpoch(S) == CHOOSE x \in S : \A y \in S : EpochGe(x, y)

\* C8: after the Job Aggregator the last-successful-sync series of a connection
\* is the maximum lastUpdatedAt, in epoch seconds, of its succeeded sync jobs,
\* in whatever order the jobs come; other jobs create no series (the registry
\* is new when the aggregators start, as in SpecJobs).
C8_LatestSuccessfulSync ==
    JobAggregatorCompleted =>
        \A c \in ConnIds :
            LET name == IF c \in DOMAIN connection_names THEN connection_names[c]
                        ELSE Str("unknown")
                key == <<PyStr(c), PyStr(name)>>
                series == registry["monitoring_last_successful_sync_timestamp"]
            IN  IF DatedSyncs(c) = {}
                THEN key \notin DOMAIN series
                ELSE /\ key \in DOMAIN series
                     /\ series[key] =
                          MaxEpoch({parse_timestamp(JobList[i]["v"]["lastUpdatedAt"].v,
                                                    timezone).val : i \in DatedSyncs(c)})

\* the later timestamp comes first in the list and is the one published:
\* 2023-01-01T22:30:00Z, 1672612200 seconds after the epoch
C8_Witness ==
    /\ JobAggregatorCompleted /\ Len(JobList) = 2
    /\ DatedSyncs(Str("c1")) = {1, 2}
    /\ JobList[1]["v"]["lastUpdatedAt"] = Str(TsLate)
    /\ JobList[2]["v"]["lastUpdatedAt"] = Str(TsEarly)
    /\ <<"c1", "Foo">> \in DOMAIN registry["monitoring_last_successful_sync_timestamp"]
    /\ registry["monitoring_last_successful_sync_timestamp"][<<"c1", "Foo">>]
         = Epoch(19358, 81000)

\* C9: a call of get_new_token that fails leaves current_token and token_expiry
\* as they were.
C9_TokenAndExpiryReplacedTogether ==
    [][(pc = "refresh" /\ exch' = "failed")
          => (current_token' = current_token /\ token_expiry' = token_expiry)]_vars

\* the connectionId labels of the jobs of a list
JobConnIds(js) ==
    IF js.t # "list" THEN {}
    ELSE {Get(js.v[i], "connectionId", None) :
            i \in {j \in DOMAIN js.v : js.v[j].t = "dict"}}

\* the connection_id labels a step with these connections and jobs may write
StepLabels(conns, js) == {PyStr(c) : c \in ConnIdsOf(conns) \cup JobConnIds(js)}

\* C10: a labelled series is never removed, and the series of a connection that
\* is in neither the connections nor the jobs of a step keeps its value.
C10_SeriesOnlyAccumulate ==
    [][\A g \in LabelledGauges : \A k \in DOMAIN registry[g] :
          /\ k \in DOMAIN registry'[g]
          /\ k[1] \notin StepLabels(connections', jobs')
                => registry'[g][k] = registry[g][k]]_vars

\* the second step had neither c1 among its connections nor a job of c1, and
\* update_connection_metrics raised at line 271 after it had written series of
\* c2: the series c1 got in the first step are published with their values,
\* next to the series of c2 that labels() made before set() raised
C10_Witness ==
    /\ pc = "sleep" /\ cycle > 1 /\ ran = <<>>
    /\ connections = List(<<ConnDatedCreatedAt>>)
    /\ "c1" \notin StepLabels(connections, jobs)
    /\ <<"c1", "Foo">> \in DOMAIN registry["monitoring_connection_created_at"]
    /\ registry["monitoring_connection_created_at"][<<"c1", "Foo">>] = 1700000000
    /\ <<"c1", "Foo">> \in DOMAIN registry["monitoring_last_successful_sync_timestamp"]
    /\ <<"c2", "unknown">> \in DOMAIN registry["monitoring_connection_streams_count"]
    /\ <<"c2", "unknown">> \in DOMAIN registry["monitoring_connection_created_at"]
    /\ registry["monitoring_connection_created_at"][<<"c2", "unknown">>] = 0

=============================================================================
